---------------------------- MODULE Spec2Model ----------------------------
(***************************************************************************)
(* A model of the SFTP-server stack of aws-cdk-sftp-server:                *)
(*   - the stack constructor (lib/aws-cdk-sftp-server-stack.ts), stage by  *)
(*     stage, as the plan of constructs it has created so far;             *)
(*   - the deployed service: the access a Transfer user gets from its      *)
(*     scoped policy and the shared user role, and the delivery of the     *)
(*     bucket's object-creation events through the notification topic;     *)
(*   - the host-key custom-resource handler (lambda/host-key).             *)
(* Text that is matched character by character (user names, object keys,   *)
(* policy patterns, base64 secrets) is a sequence of symbols.              *)
(***************************************************************************)
EXTENDS Integers, Sequences, FiniteSets, TLC

VARIABLES
  \* ---- the stack constructor
  pc,              \* the next stage of the constructor, or "done" / "failed"
  options,         \* the part of ./config's options the constructor has used
  lookups,         \* the Vpc.fromLookup calls made so far
  subnetIds,       \* the public subnets' ids
  zone,            \* this.zone
  certificate,     \* this.certificate
  constructs,      \* ids of the constructs created in the stack, in order
  ingressRules,    \* the security group's ingress rules
  cfnUsers,        \* the CfnUser constructs' properties
  notifications,   \* the event notifications of sftpBucket
  subscriptions,   \* the subscriptions of notifTopic
  grants,          \* bucket permissions granted to functions
  error,           \* the message of the Error thrown, "" if none
  \* ---- the deployed service
  transferUsers,   \* the users of the deployed Transfer server
  access,          \* the last S3 request of a user session and its decision
  bucketEvents,    \* the deployed bucket's notification configuration
  topicSubs,       \* the deployed topic's subscriptions
  objectEvents,    \* the object-creation events of the primary bucket so far
  published,       \* how many messages the topic received
  deliveries,      \* per subscription, how many messages it received
  \* ---- the host-key handler
  secret,          \* the SecretString stored under the secret reference
  hostKey,         \* the host key applied to the server
  awsCalls,        \* the AWS API calls the handler has issued
  request,         \* the last event handled
  response,        \* what the handler returned or threw for it
  applied,         \* the ResourceProperties of the last request that updated the server
  nRequests        \* how many events were handled

planVars == <<pc, options, lookups, subnetIds, zone, certificate, constructs,
              ingressRules, cfnUsers, notifications, subscriptions, grants, error>>
accessVars == <<transferUsers, access>>
eventVars == <<bucketEvents, topicSubs, objectEvents, published, deliveries>>
handlerVars == <<secret, hostKey, awsCalls, request, response, applied, nRequests>>
vars == <<planVars, accessVars, eventVars, handlerVars>>

(***************************************************************************)
(* Bounds                                                                  *)
(***************************************************************************)
MaxRequests == 2
MaxCidrs == 2
MaxUsers == 2
MaxEvents == 3

\* The elements of a sequence
Range(s) == {s[i] : i \in 1..Len(s)}

(***************************************************************************)
(* The host-key handler: lambda/host-key (exports.handler)                 *)
(***************************************************************************)

\* The value of a base64 character (the ones the secrets below are made of)
B64Value(c) ==
  CASE c = "A" -> 0
    [] c = "E" -> 4
    [] c = "F" -> 5
    [] c = "Q" -> 16
    [] c = "U" -> 20
    [] c = "g" -> 32
    [] c = "w" -> 48

\* The sextets of a base64 text: decoding stops at the padding
RECURSIVE B64Sextets(_)
B64Sextets(s) ==
  IF s = <<>> \/ Head(s) = "=" THEN <<>>
  ELSE <<B64Value(Head(s))>> \o B64Sextets(Tail(s))

\* Buffer.from(text, 'base64'): 4 sextets give 3 bytes, 3 give 2, 2 give 1
RECURSIVE B64Bytes(_)
B64Bytes(v) ==
  IF Len(v) < 2 THEN <<>>
  ELSE LET b1 == v[1] * 4 + (v[2] \div 16)
       IN IF Len(v) = 2 THEN <<b1>>
          ELSE LET b2 == (v[2] % 16) * 16 + (v[3] \div 4)
               IN IF Len(v) = 3 THEN <<b1, b2>>
                  ELSE <<b1, b2, (v[3] % 4) * 64 + v[4]>>
                         \o B64Bytes(SubSeq(v, 5, Len(v)))

\* Buffer.toString('ascii'): the high bit of every byte is dropped
ToAscii(bytes) == [i \in 1..Len(bytes) |-> bytes[i] % 128]

\* The key the handler sends: the secret, base64-decoded and read as ascii
DecodeKey(secretString) == ToAscii(B64Bytes(B64Sextets(secretString)))

NoSecret == <<"-">>          \* the secret reference resolves to nothing
SecretStrings ==
  { <<"Q", "Q", "=", "=">>,  \* "A"
    <<"w", "Q", "=", "=">>,  \* byte 0xC1, read as ascii "A"
    <<"Q", "g", "=", "=">>,  \* "B"
    <<"Q", "U", "F", "=">> } \* "AA"

RequestTypes == {"Create", "Update", "Delete", "Replace"}
\* A property of ResourceProperties may be absent, empty or set
ServerIdProps == {<<>>, <<"">>, <<"s-1">>}
SecretArnProps == {<<>>, <<"">>, <<"arn:secret">>}
VersionProps == {<<>>, <<"1">>}
PropRecord(s, a, v) ==
  [n \in ({"serverId" : x \in Range(s)} \cup {"hostKeySecretArn" : x \in Range(a)}
           \cup {"hostKeyVersion" : x \in Range(v)})
     |-> IF n = "serverId" THEN s[1] ELSE IF n = "hostKeySecretArn" THEN a[1] ELSE v[1]]
Events ==
  { [RequestType |-> t, PhysicalResourceId |-> "phys-1", RequestId |-> "req-1",
     ResourceProperties |-> PropRecord(s, a, v)] :
      t \in RequestTypes, s \in ServerIdProps, a \in SecretArnProps, v \in VersionProps }

\* const { serverId = '', hostKeySecretArn = '', hostKeyVersion = '' } = ResourceProperties
Prop(event, name) ==
  IF name \in DOMAIN event.ResourceProperties THEN event.ResourceProperties[name] ELSE ""
Props(event) ==
  [serverId |-> Prop(event, "serverId"),
   hostKeySecretArn |-> Prop(event, "hostKeySecretArn"),
   hostKeyVersion |-> Prop(event, "hostKeyVersion")]
NothingApplied == [serverId |-> "", hostKeySecretArn |-> "", hostKeyVersion |-> ""]

Returned(id) == [status |-> "returned", PhysicalResourceId |-> id, message |-> ""]
Thrown(msg) == [status |-> "thrown", PhysicalResourceId |-> "", message |-> msg]
NoResponse == [status |-> "none", PhysicalResourceId |-> "", message |-> ""]

\* A handler that treats Delete like Update
HandlerWithoutDeleteShortcut(event, secretString, key) ==
  LET p == Props(event)
  IN IF event.RequestType \notin {"Create", "Update", "Delete"}
       THEN [response |-> Thrown("Invalid RequestType"), calls |-> <<>>, key |-> key]
     ELSE IF p.serverId = ""
       THEN [response |-> Thrown("Missing serverId"), calls |-> <<>>, key |-> key]
     ELSE IF p.hostKeySecretArn = ""
       THEN [response |-> Thrown("Missing hostKeySecretArn"), calls |-> <<>>, key |-> key]
     ELSE IF secretString = NoSecret
       THEN [response |-> Thrown("ResourceNotFoundException"),
             calls |-> <<"getSecretValue">>, key |-> key]
     ELSE [response |-> Returned(IF event.RequestType = "Create" THEN event.RequestId
                                 ELSE event.PhysicalResourceId),
           calls |-> <<"getSecretValue", "updateServer">>,
           key |-> DecodeKey(secretString)]

\* A handler that reads the secret before it validates the properties
HandlerReadingSecretFirst(event, secretString, key) ==
  LET p == Props(event)
  IN IF event.RequestType \notin {"Create", "Update", "Delete"}
       THEN [response |-> Thrown("Invalid RequestType"), calls |-> <<>>, key |-> key]
     ELSE IF event.RequestType = "Delete"
       THEN [response |-> Returned(event.PhysicalResourceId), calls |-> <<>>, key |-> key]
     ELSE IF p.serverId = ""
       THEN [response |-> Thrown("Missing serverId"),
             calls |-> <<"getSecretValue">>, key |-> key]
     ELSE IF p.hostKeySecretArn = ""
       THEN [response |-> Thrown("Missing hostKeySecretArn"),
             calls |-> <<"getSecretValue">>, key |-> key]
     ELSE IF secretString = NoSecret
       THEN [response |-> Thrown("ResourceNotFoundException"),
             calls |-> <<"getSecretValue">>, key |-> key]
     ELSE [response |-> Returned(IF event.RequestType = "Create" THEN event.RequestId
                                 ELSE event.PhysicalResourceId),
           calls |-> <<"getSecretValue", "updateServer">>,
           key |-> DecodeKey(secretString)]

\* exports.handler on one event: what it returns or throws, the AWS calls it
\* issues, and the server's host key afterwards
Handler(event, secretString, key) ==
  LET p == Props(event)
  IN IF event.RequestType \notin {"Create", "Update", "Delete"}
       THEN [response |-> Thrown("Invalid RequestType"), calls |-> <<>>, key |-> key]
     ELSE IF event.RequestType = "Delete"
       THEN [response |-> Returned(event.PhysicalResourceId), calls |-> <<>>, key |-> key]
     ELSE IF p.serverId = ""
       THEN [response |-> Thrown("Missing serverId"), calls |-> <<>>, key |-> key]
     ELSE IF p.hostKeySecretArn = ""
       THEN [response |-> Thrown("Missing hostKeySecretArn"), calls |-> <<>>, key |-> key]
     ELSE IF secretString = NoSecret
       \* sm.getSecretValue rejects; the catch block rethrows
       THEN [response |-> Thrown("ResourceNotFoundException"),
             calls |-> <<"getSecretValue">>, key |-> key]
     ELSE [response |-> Returned(IF event.RequestType = "Create" THEN event.RequestId
                                 ELSE event.PhysicalResourceId),
           calls |-> <<"getSecretValue", "updateServer">>,
           key |-> DecodeKey(secretString)]

InitHandler ==
  /\ secret \in SecretStrings \cup {NoSecret}
  /\ hostKey = <<>>
  /\ awsCalls = <<>>
  /\ request = [RequestType |-> "", PhysicalResourceId |-> "", RequestId |-> "",
                ResourceProperties |-> PropRecord(<<>>, <<>>, <<>>)]
  /\ response = NoResponse
  /\ applied = NothingApplied
  /\ nRequests = 0

\* The provider framework invokes the handler with one event
Handle ==
  /\ UNCHANGED <<planVars, accessVars, eventVars>>
  /\ nRequests < MaxRequests
  /\ \E event \in Events :
       LET r == Handler(event, secret, hostKey)
       IN /\ request' = event
          /\ response' = r.response
          /\ awsCalls' = awsCalls \o r.calls
          /\ hostKey' = r.key
          /\ applied' = IF "updateServer" \in Range(r.calls) THEN Props(event) ELSE applied
  /\ nRequests' = nRequests + 1
  /\ UNCHANGED secret

\* Someone stores a new value under the secret reference, or deletes the secret
PutSecretValue ==
  /\ UNCHANGED <<planVars, accessVars, eventVars>>
  /\ nRequests < MaxRequests
  /\ \E s \in (SecretStrings \cup {NoSecret}) \ {secret} : secret' = s
  /\ UNCHANGED <<hostKey, awsCalls, request, response, applied, nRequests>>

(***************************************************************************)
(* The stack constructor: lib/aws-cdk-sftp-server-stack.ts                 *)
(***************************************************************************)
SftpPort == 22
VpcCidrBlock == "172.31.0.0/16"     \* vpc.vpcCidrBlock of the looked-up network
AnyIpv4 == "0.0.0.0/0"              \* Peer.anyIpv4()
Cidrs == {"10.0.0.0/24", "192.168.0.0/16", VpcCidrBlock}
BucketName == <<"sftpbucket">>      \* sftpBucket.bucketName

SubnetErr == "One public subnet is required"
HostnameErr == "zoneName, hostedZoneId, sftpHostname are required to use a custom hostname"
HostKeyErr == "hostKeySecretArn must be provided when importing a custom host key"

\* What vpc.publicSubnets may hold after the lookup
SubnetLookups == {<<>>, <<"subnet-a">>, <<"subnet-a", "subnet-b">>}

\* ./config: the values options may hold
VpcAttrs == {[customVpcId |-> v] : v \in {"", "vpc-1"}}
HostnameOff ==
  [useCustomHostname |-> FALSE, dnsAttr |-> [zoneName |-> "", hostedZoneId |-> ""],
   sftpHostname |-> "", certificateArn |-> ""]
CustomHostnames ==
  {HostnameOff} \cup
  { [useCustomHostname |-> TRUE, dnsAttr |-> [zoneName |-> z, hostedZoneId |-> h],
     sftpHostname |-> s, certificateArn |-> c] :
      z \in {"", "example.com"}, h \in {"", "Z123"}, s \in {"", "sftp"},
      c \in {"", "arn:cert"} }
CustomHostKeys ==
  { [useCustomKey |-> FALSE, hostKeySecretArn |-> "", hostKeyVersion |-> "1"] } \cup
  { [useCustomKey |-> TRUE, hostKeySecretArn |-> a, hostKeyVersion |-> "1"] :
      a \in {"", "arn:secret"} }
AllowCidrLists == UNION {[1..n -> Cidrs] : n \in 0..MaxCidrs}
SftpAttrs == {[allowCidrs |-> l, moveToArchive |-> m] : l \in AllowCidrLists, m \in BOOLEAN}
al == <<"a", "l">>
alice == <<"a", "l", "i", "c", "e">>
bob == <<"b", "o", "b">>
UserEntries ==
  { [userName |-> al, publicKey |-> "ssh-rsa AAAA"],
    [userName |-> alice, publicKey |-> "ssh-rsa AAAA"],
    [userName |-> <<>>, publicKey |-> "ssh-rsa AAAA"],
    [userName |-> al, publicKey |-> ""] }
UserLists == UNION {[1..n -> UserEntries] : n \in 0..MaxUsers}
NotificationEmailLists ==
  {<<>>, <<"ops@example.com">>, <<"ops@example.com", "dev@example.com">>}

\* An ingress rule of the security group
Rule(peer, description) == [peer |-> peer, port |-> SftpPort, description |-> description]

\* sg.addIngressRule: the security group keeps one rule per peer and port; a
\* rule equal to one it holds, the description apart, is not added again
AddIngressRule(rules, rule) ==
  IF \E i \in 1..Len(rules) : rules[i].peer = rule.peer /\ rules[i].port = rule.port
  THEN rules
  ELSE Append(rules, rule)

RECURSIVE AddExternalRules(_, _)
AddExternalRules(rules, cidrs) ==
  IF cidrs = <<>> THEN rules
  ELSE AddExternalRules(AddIngressRule(rules, Rule(Head(cidrs), "allow external SFTP access")),
                        Tail(cidrs))

\* Ingress rules that leave out the network's own address block
IngressRulesWithoutInternal(allowCidrs, vpcCidrBlock) ==
  IF Len(allowCidrs) > 0
  THEN AddExternalRules(<<>>, allowCidrs)
  ELSE AddIngressRule(<<>>, Rule(AnyIpv4, "allow public SFTP access"))

\* The ingress rules the constructor adds to the new security group
IngressRules(allowCidrs, vpcCidrBlock) ==
  IF Len(allowCidrs) > 0
  THEN AddIngressRule(AddExternalRules(<<>>, allowCidrs),
                      Rule(vpcCidrBlock, "allow internal SFTP access"))
  ELSE AddIngressRule(<<>>, Rule(AnyIpv4, "allow public SFTP access"))

\* The session policy every CfnUser carries, its variables unresolved
ScopedPolicy ==
  [listResource |-> <<"${transfer:HomeBucket}">>,
   listPrefixes |-> { <<"home", "/", "${transfer:UserName}", "/", "*">>,
                      <<"home", "/", "${transfer:UserName}">> },
   objectActions |-> {"s3:PutObject", "s3:GetObject", "s3:GetObjectVersion"},
   objectResource |-> <<"${transfer:HomeDirectory}", "*">>]

\* The shared role of the users
UserRole ==
  [listActions |-> {"s3:ListBucket"}, listResource |-> <<"*">>,
   objectActions |-> {"s3:PutObject", "s3:GetObject", "s3:GetObjectVersion"},
   objectResource |-> BucketName \o <<"/", "*">>]

\* new CfnUser(this, `user${i + 1}`, ...)
CfnUserProps(user, i) ==
  [id |-> "user" \o ToString(i),
   role |-> "userRole",
   serverId |-> "sftpServer",
   userName |-> user.userName,
   homeDirectory |-> <<"/">> \o BucketName \o <<"/", "home", "/">> \o user.userName,
   sshPublicKeys |-> <<user.publicKey>>,
   policy |-> ScopedPolicy]
CfnUsers(users) == [i \in 1..Len(users) |-> CfnUserProps(users[i], i)]

\* sftpBucket.addEventNotification(EventType.OBJECT_CREATED_PUT, ...)
BucketNotifications == {[event |-> "s3:ObjectCreated:Put", destination |-> "notifTopic"]}

EmailSubscriptions(emails) ==
  [i \in 1..Len(emails) |-> [protocol |-> "email", endpoint |-> emails[i]]]
\* The subscriptions of notifTopic
TopicSubscriptions(emails, moveToArchive) ==
  EmailSubscriptions(emails) \o
  (IF moveToArchive THEN <<[protocol |-> "lambda", endpoint |-> "archiveFnc"]>> ELSE <<>>)

Grant(grantee, resource, permissions) ==
  {[grantee |-> grantee, resource |-> resource, permission |-> p] : p \in permissions}
\* archiveBucket.grantPut(archiveFnc); sftpBucket.grantReadWrite(archiveFnc)
ArchiveGrants ==
  Grant("archiveFnc", "archiveBucket", {"put"})
    \cup Grant("archiveFnc", "sftpBucket", {"read", "put", "delete"})

InitPlan ==
  /\ pc = "network"
  /\ \E v \in VpcAttrs, h \in CustomHostnames, k \in CustomHostKeys :
       options = [vpcAttr |-> v, customHostname |-> h, customHostKey |-> k]
  /\ lookups = <<>>
  /\ subnetIds = <<>>
  /\ zone = ""
  /\ certificate = ""
  /\ constructs = <<>>
  /\ ingressRules = <<>>
  /\ cfnUsers = <<>>
  /\ notifications = {}
  /\ subscriptions = <<>>
  /\ grants = {}
  /\ error = ""

Throw(msg) == pc' = "failed" /\ error' = msg

\* A network stage that goes on without a public subnet
ResolveNetworkWithoutSubnetCheck ==
  /\ UNCHANGED <<accessVars, eventVars, handlerVars>>
  /\ pc = "network"
  /\ lookups' = Append(lookups,
       IF options.vpcAttr.customVpcId # ""
       THEN [vpcId |-> options.vpcAttr.customVpcId, isDefault |-> FALSE]
       ELSE [vpcId |-> "", isDefault |-> TRUE])
  /\ \E subnets \in SubnetLookups : pc' = "hostname" /\ subnetIds' = subnets
  /\ UNCHANGED <<options, zone, certificate, constructs, ingressRules, cfnUsers,
                 notifications, subscriptions, grants, error>>

\* Lines 94-106: the network lookup and the public-subnet check
ResolveNetwork ==
  /\ UNCHANGED <<accessVars, eventVars, handlerVars>>
  /\ pc = "network"
  /\ lookups' = Append(lookups,
       IF options.vpcAttr.customVpcId # ""
       THEN [vpcId |-> options.vpcAttr.customVpcId, isDefault |-> FALSE]
       ELSE [vpcId |-> "", isDefault |-> TRUE])
  /\ \E subnets \in SubnetLookups :
       IF Len(subnets) = 0
       THEN Throw(SubnetErr) /\ UNCHANGED subnetIds
       ELSE pc' = "hostname" /\ subnetIds' = subnets /\ UNCHANGED error
  /\ UNCHANGED <<options, zone, certificate, constructs, ingressRules, cfnUsers,
                 notifications, subscriptions, grants>>

\* Lines 108-123: the hosted zone and the certificate of a custom hostname
ResolveHostname ==
  /\ UNCHANGED <<accessVars, eventVars, handlerVars>>
  /\ pc = "hostname"
  /\ LET h == options.customHostname
     IN IF ~h.useCustomHostname
        THEN pc' = "service" /\ UNCHANGED <<zone, certificate, constructs, error>>
        ELSE IF h.dnsAttr.zoneName = "" \/ h.dnsAttr.hostedZoneId = "" \/ h.sftpHostname = ""
        THEN Throw(HostnameErr) /\ UNCHANGED <<zone, certificate, constructs>>
        ELSE /\ pc' = "service"
             /\ zone' = h.dnsAttr.zoneName
             /\ certificate' = IF h.certificateArn # "" THEN h.certificateArn
                               ELSE "*." \o h.dnsAttr.zoneName
             /\ constructs' = constructs \o <<"zone", "cert">>
             /\ UNCHANGED error
  /\ UNCHANGED <<options, lookups, subnetIds, ingressRules, cfnUsers, notifications,
                 subscriptions, grants>>

\* Lines 125-197: the logging role, the security group and its ingress rules,
\* one elastic address per subnet, the server, its outputs and DNS record,
\* and the storage bucket
PlanService ==
  /\ UNCHANGED <<accessVars, eventVars, handlerVars>>
  /\ pc = "service"
  /\ \E a \in SftpAttrs :
       /\ options' = options @@ [sftpAttr |-> a]
       /\ ingressRules' = IngressRules(a.allowCidrs, VpcCidrBlock)
  /\ constructs' = constructs \o <<"loggingRole", "sg">>
       \o [i \in 1..Len(subnetIds) |-> "eip" \o subnetIds[i]]
       \o <<"sftpServer", "domainName">>
       \o (IF options.customHostname.useCustomHostname /\ zone # ""
           THEN <<"record", "customHostname">> ELSE <<>>)
       \o <<"sftpBucket">>
  /\ pc' = "hostKey"
  /\ UNCHANGED <<lookups, subnetIds, zone, certificate, cfnUsers, notifications,
                 subscriptions, grants, error>>

\* Lines 199-237: the custom resource that imports the host key
PlanHostKey ==
  /\ UNCHANGED <<accessVars, eventVars, handlerVars>>
  /\ pc = "hostKey"
  /\ LET k == options.customHostKey
     IN IF ~k.useCustomKey
        THEN pc' = "users" /\ UNCHANGED <<constructs, grants, error>>
        ELSE IF k.hostKeySecretArn = ""
        THEN Throw(HostKeyErr) /\ UNCHANGED <<constructs, grants>>
        ELSE /\ pc' = "users"
             /\ constructs' = constructs
                  \o <<"keySecret", "hostKeyFnc", "hostKeyProvider", "customHostKey">>
             /\ grants' = grants \cup Grant("hostKeyFnc", "keySecret", {"read"})
             /\ UNCHANGED error
  /\ UNCHANGED <<options, lookups, subnetIds, zone, certificate, ingressRules, cfnUsers,
                 notifications, subscriptions>>

\* Lines 239-299: the shared user role and one CfnUser per configured user
PlanUsers ==
  /\ UNCHANGED <<accessVars, eventVars, handlerVars>>
  /\ pc = "users"
  /\ \E users \in UserLists :
       /\ options' = options @@ [users |-> users]
       /\ cfnUsers' = CfnUsers(users)
       /\ constructs' = constructs \o <<"userRole">>
            \o [i \in 1..Len(users) |-> "user" \o ToString(i)]
  /\ pc' = "notifications"
  /\ UNCHANGED <<lookups, subnetIds, zone, certificate, ingressRules, notifications,
                 subscriptions, grants, error>>

\* Lines 301-330: the topic, the bucket's notification, the subscriptions and
\* the archive bucket and function
PlanNotifications ==
  /\ UNCHANGED <<accessVars, eventVars, handlerVars>>
  /\ pc = "notifications"
  /\ \E emails \in NotificationEmailLists :
       /\ options' = options @@ [notificationEmails |-> emails]
       /\ subscriptions' = TopicSubscriptions(emails, options.sftpAttr.moveToArchive)
  /\ notifications' = BucketNotifications
  /\ constructs' = constructs \o <<"notifTopic">>
       \o (IF options.sftpAttr.moveToArchive THEN <<"archiveBucket", "archiveFnc">> ELSE <<>>)
  /\ grants' = IF options.sftpAttr.moveToArchive THEN grants \cup ArchiveGrants ELSE grants
  /\ pc' = "done"
  /\ UNCHANGED <<lookups, subnetIds, zone, certificate, ingressRules, cfnUsers, error>>

Next ==
  \/ ResolveNetwork
  \/ ResolveHostname
  \/ PlanService
  \/ PlanHostKey
  \/ PlanUsers
  \/ PlanNotifications

(***************************************************************************)
(* The deployed service: what a user session may do in the bucket          *)
(***************************************************************************)

\* A policy pattern against a text: "*" stands for any run of symbols
RECURSIVE GlobMatch(_, _)
GlobMatch(pattern, text) ==
  IF pattern = <<>> THEN text = <<>>
  ELSE IF Head(pattern) = "*"
    THEN \/ GlobMatch(Tail(pattern), text)
         \/ text # <<>> /\ GlobMatch(pattern, Tail(text))
  ELSE text # <<>> /\ Head(pattern) = Head(text) /\ GlobMatch(Tail(pattern), Tail(text))

\* The policy variables of a user's session. The home directory is
\* /<bucket>/<path>: transfer:HomeBucket is its bucket and transfer:HomeDirectory
\* the directory as a resource name, <bucket>/<path>
PolicyVariable(symbol, user) ==
  CASE symbol = "${transfer:UserName}" -> user.userName
    [] symbol = "${transfer:HomeBucket}" -> <<user.homeDirectory[2]>>
    [] symbol = "${transfer:HomeDirectory}" -> Tail(user.homeDirectory)
    [] OTHER -> <<symbol>>

RECURSIVE Resolve(_, _)
Resolve(pattern, user) ==
  IF pattern = <<>> THEN <<>>
  ELSE PolicyVariable(Head(pattern), user) \o Resolve(Tail(pattern), user)

ListActions == {"s3:ListBucket"}
ObjectActions == {"s3:PutObject", "s3:GetObject", "s3:GetObjectVersion"}

\* A request names the bucket and an object key (for s3:ListBucket, the
\* s3:prefix it lists)
RoleAllows(role, action, bucket, key) ==
  \/ action \in role.listActions /\ GlobMatch(role.listResource, bucket)
  \/ action \in role.objectActions /\ GlobMatch(role.objectResource, bucket \o <<"/">> \o key)

PolicyAllows(user, action, bucket, key) ==
  \/ /\ action = "s3:ListBucket"
     /\ GlobMatch(Resolve(user.policy.listResource, user), bucket)
     /\ \E p \in user.policy.listPrefixes : GlobMatch(Resolve(p, user), key)
  \/ /\ action \in user.policy.objectActions
     /\ GlobMatch(Resolve(user.policy.objectResource, user), bucket \o <<"/">> \o key)

\* A session's access is what both the role and the session policy allow
Allowed(user, action, bucket, key) ==
  RoleAllows(UserRole, action, bucket, key) /\ PolicyAllows(user, action, bucket, key)

Home(name) == <<"home", "/">> \o name
UnderHome(name, key) ==
  Len(key) > Len(Home(name)) /\ SubSeq(key, 1, Len(Home(name)) + 1) = Home(name) \o <<"/">>
DeployedNames == {al, alice, bob}
ObjectKeys ==
  {<<>>, <<"f">>} \cup {Home(n) : n \in DeployedNames}
    \cup {Home(n) \o <<"/">> : n \in DeployedNames}
    \cup {Home(n) \o <<"/", "f">> : n \in DeployedNames}
\* Lists of well-formed users with distinct names
DeployedUserLists ==
  { l \in UNION {[1..n -> DeployedNames] : n \in 1..MaxUsers} :
      \A i, j \in 1..Len(l) : i # j => l[i] # l[j] }

NoAccess == [userName |-> <<>>, action |-> "", key |-> <<>>, allowed |-> FALSE]
InitAccess ==
  /\ \E names \in DeployedUserLists :
       transferUsers = CfnUsers([i \in 1..Len(names) |->
                                   [userName |-> names[i], publicKey |-> "ssh-rsa AAAA"]])
  /\ access = NoAccess

\* A session of a user sends one request to the bucket
Access ==
  /\ UNCHANGED <<planVars, eventVars, handlerVars>>
  /\ \E i \in 1..Len(transferUsers), action \in ListActions \cup ObjectActions,
        key \in ObjectKeys :
       access' = [userName |-> transferUsers[i].userName, action |-> action, key |-> key,
                  allowed |-> Allowed(transferUsers[i], action, BucketName, key)]
  /\ UNCHANGED transferUsers

(***************************************************************************)
(* The deployed service: object-creation events and their notifications    *)
(***************************************************************************)
CreationMethods == {"Put", "Post", "Copy", "CompleteMultipartUpload"}

\* Whether a notification configured for `configured` fires on `event`
EventMatches(configured, event) ==
  configured = event \/ configured = "s3:ObjectCreated:*"

InitEvents ==
  /\ bucketEvents = BucketNotifications
  /\ \E emails \in NotificationEmailLists, m \in BOOLEAN :
       topicSubs = TopicSubscriptions(emails, m)
  /\ objectEvents = <<>>
  /\ published = 0
  /\ deliveries = [i \in 1..Len(topicSubs) |-> 0]

\* An object is created in the primary bucket
CreateObject ==
  /\ UNCHANGED <<planVars, accessVars, handlerVars>>
  /\ Len(objectEvents) < MaxEvents
  /\ \E m \in CreationMethods :
       LET event == "s3:ObjectCreated:" \o m
       IN /\ objectEvents' = Append(objectEvents, event)
          /\ IF \E n \in bucketEvents : EventMatches(n.event, event)
             THEN /\ published' = published + 1
                  /\ deliveries' = [i \in DOMAIN deliveries |-> deliveries[i] + 1]
             ELSE UNCHANGED <<published, deliveries>>
  /\ UNCHANGED <<bucketEvents, topicSubs>>

(***************************************************************************)
(* Specifications                                                          *)
(***************************************************************************)
IdlePlan ==
  /\ pc = "idle"
  /\ options = [vpcAttr |-> [customVpcId |-> ""], customHostname |-> HostnameOff,
                customHostKey |-> [useCustomKey |-> FALSE, hostKeySecretArn |-> "",
                                   hostKeyVersion |-> "1"]]
  /\ lookups = <<>> /\ subnetIds = <<>> /\ zone = "" /\ certificate = ""
  /\ constructs = <<>> /\ ingressRules = <<>> /\ cfnUsers = <<>>
  /\ notifications = {} /\ subscriptions = <<>> /\ grants = {} /\ error = ""
IdleAccess == transferUsers = <<>> /\ access = NoAccess
IdleEvents ==
  /\ bucketEvents = {} /\ topicSubs = <<>> /\ objectEvents = <<>>
  /\ published = 0 /\ deliveries = <<>>
IdleHandler ==
  /\ secret = NoSecret /\ hostKey = <<>> /\ awsCalls = <<>>
  /\ request = [RequestType |-> "", PhysicalResourceId |-> "", RequestId |-> "",
                ResourceProperties |-> PropRecord(<<>>, <<>>, <<>>)]
  /\ response = NoResponse /\ applied = NothingApplied /\ nRequests = 0

\* One run of the stack constructor
Init == InitPlan /\ IdleAccess /\ IdleEvents /\ IdleHandler
Spec == Init /\ [][Next]_vars

\* The sessions of the users of a deployed stack
AccessInit == IdlePlan /\ InitAccess /\ IdleEvents /\ IdleHandler
AccessNext == Access
SpecAccess == AccessInit /\ [][AccessNext]_vars

\* The object-creation events of a deployed stack
EventsInit == IdlePlan /\ IdleAccess /\ InitEvents /\ IdleHandler
EventsNext == CreateObject
SpecEvents == EventsInit /\ [][EventsNext]_vars

\* The host-key handler and the secret it reads
HandlerInit == IdlePlan /\ IdleAccess /\ IdleEvents /\ InitHandler
HandlerNext == Handle \/ PutSecretValue
SpecHandler == HandlerInit /\ [][HandlerNext]_vars

(***************************************************************************)
(* Properties                                                              *)
(***************************************************************************)
ConfiguredNames == {transferUsers[i].userName : i \in 1..Len(transferUsers)}

AtBucketRoot(key) == "/" \notin Range(key)

\* C1: the access a configured user U gets from its scoped policy and the
\* shared role never allows listing, reading or writing a key under home/V/
\* of another configured user V, nor a key at the bucket root (checked under
\* SpecAccess).
C1_UserIsolation ==
  (access.action # "" /\ access.allowed) =>
    /\ \A v \in ConfiguredNames \ {access.userName} : ~UnderHome(v, access.key)
    /\ ~AtBucketRoot(access.key)

\* The functions subscribed to the topic
LambdaSubscribers == {i \in 1..Len(subscriptions) : subscriptions[i].protocol = "lambda"}

\* C2: in a finished plan with moveToArchive set, the topic has exactly one
\* function subscriber, and the archive function is granted exactly read on
\* the primary bucket and put on the archive bucket.
C2_ArchiveLeastPrivilege ==
  (pc = "done" /\ options.sftpAttr.moveToArchive) =>
    /\ Cardinality(LambdaSubscribers) = 1
    /\ {g \in grants : g.grantee = "archiveFnc"}
         = Grant("archiveFnc", "sftpBucket", {"read"})
             \cup Grant("archiveFnc", "archiveBucket", {"put"})

HostnameAttrsMissing ==
  /\ options.customHostname.useCustomHostname
  /\ \/ options.customHostname.dnsAttr.zoneName = ""
     \/ options.customHostname.dnsAttr.hostedZoneId = ""
     \/ options.customHostname.sftpHostname = ""

\* C3: with a custom hostname requested and one of zoneName, hostedZoneId,
\* sftpHostname missing, the constructor never completes, and when it throws
\* the hostname error no network lookup has been made and no construct created.
C3_HostnameValidatedFirst ==
  HostnameAttrsMissing =>
    /\ pc # "done"
    /\ error = HostnameErr => lookups = <<>> /\ constructs = <<>>

HostKeySecretMissing ==
  options.customHostKey.useCustomKey /\ options.customHostKey.hostKeySecretArn = ""
ServiceConstructs ==
  {"sg", "sftpServer", "record", "domainName", "customHostname", "sftpBucket"}
    \cup {"eip" \o sid : sid \in {"subnet-a", "subnet-b"}}

\* C4: with a custom host key requested and hostKeySecretArn missing, the
\* constructor never completes, and when it throws the host-key error the
\* plan holds no security group, elastic address, server, DNS record, output
\* or bucket.
C4_HostKeyValidatedFirst ==
  HostKeySecretMissing =>
    /\ pc # "done"
    /\ error = HostKeyErr => Range(constructs) \cap ServiceConstructs = {}

Malformed(user) == user.userName = <<>> \/ user.publicKey = ""

\* C5: once the constructor has gone through a user list holding an entry
\* with an empty name or an empty public key, it has failed and the plan
\* holds no CfnUser.
C5_MalformedUserAborts ==
  ("users" \in DOMAIN options /\ \E i \in 1..Len(options.users) : Malformed(options.users[i]))
    => (pc = "failed" /\ error # "" /\ cfnUsers = <<>>)

\* The rule set the claim describes for an allow-list
ExpectedRules(allowCidrs) ==
  LET n == Len(allowCidrs)
  IN IF n = 0
     THEN /\ Len(ingressRules) = 1
          /\ ingressRules[1].peer = AnyIpv4 /\ ingressRules[1].port = SftpPort
     ELSE /\ Len(ingressRules) = n + 1
          /\ \A i \in 1..n : ingressRules[i].peer = allowCidrs[i]
          /\ ingressRules[n + 1].peer = VpcCidrBlock
          /\ \A i \in 1..(n + 1) : ingressRules[i].port = SftpPort

\* C6 as stated: once the security group is planned, an allow-list of N >= 1
\* ranges has given N+1 rules on port 22, one per listed range and one for the
\* network's block, and an empty allow-list one rule for all IPv4 addresses.
C6_IngressRulesForEveryList ==
  "sftpAttr" \in DOMAIN options => ExpectedRules(options.sftpAttr.allowCidrs)

DistinctExternal(allowCidrs) ==
  /\ \A i, j \in 1..Len(allowCidrs) : i # j => allowCidrs[i] # allowCidrs[j]
  /\ VpcCidrBlock \notin Range(allowCidrs)

\* C6, amended: the same for an allow-list whose ranges are pairwise distinct
\* and differ from the network's own block, and for the empty allow-list.
C6_IngressRules ==
  ("sftpAttr" \in DOMAIN options /\ DistinctExternal(options.sftpAttr.allowCidrs))
    => ExpectedRules(options.sftpAttr.allowCidrs)

\* Two distinct external ranges have given three rules
C6_Witness ==
  /\ "sftpAttr" \in DOMAIN options
  /\ Len(options.sftpAttr.allowCidrs) = 2
  /\ DistinctExternal(options.sftpAttr.allowCidrs)
  /\ Len(ingressRules) = 3

\* A step of the handler
Handled == nRequests' = nRequests + 1

\* C7: on a Delete event, whatever its properties, the handler returns the
\* event's PhysicalResourceId, issues no AWS call and leaves the server's host
\* key as it was.
C7_DeleteIsNoOp ==
  [][(Handled /\ request'.RequestType = "Delete") =>
       /\ response' = Returned(request'.PhysicalResourceId)
       /\ awsCalls' = awsCalls
       /\ hostKey' = hostKey]_vars

\* A Delete without a serverId was acknowledged and an imported key is still applied
C7_Witness ==
  /\ request.RequestType = "Delete"
  /\ Prop(request, "serverId") = ""
  /\ response = Returned("phys-1")
  /\ hostKey # <<>>
  /\ "updateServer" \in Range(awsCalls)

\* C8: a Create or Update event whose (serverId, hostKeySecretArn,
\* hostKeyVersion) are those of the last request that updated the server is
\* acknowledged and leaves the server's host key as it was, whatever is stored
\* under the secret reference by then.
C8_SameVersionKeepsKey ==
  [][(/\ Handled
      /\ request'.RequestType \in {"Create", "Update"}
      /\ applied # NothingApplied
      /\ secret # NoSecret
      /\ Props(request') = applied) =>
       /\ response'.status = "returned"
       /\ hostKey' = hostKey]_vars

\* C9: a Create or Update event without a serverId or a hostKeySecretArn is
\* refused with the error naming a missing property, and an event of another
\* RequestType than Create, Update, Delete is refused; neither issues an AWS
\* call nor changes the server's host key.
C9_MissingPropertyRefused ==
  [][Handled =>
       /\ (/\ request'.RequestType \in {"Create", "Update"}
           /\ Prop(request', "serverId") = "" \/ Prop(request', "hostKeySecretArn") = "") =>
            /\ response'.status = "thrown"
            /\ \/ response'.message = "Missing serverId" /\ Prop(request', "serverId") = ""
               \/ /\ response'.message = "Missing hostKeySecretArn"
                  /\ Prop(request', "hostKeySecretArn") = ""
            /\ awsCalls' = awsCalls
            /\ hostKey' = hostKey
       /\ request'.RequestType \notin {"Create", "Update", "Delete"} =>
            /\ response'.status = "thrown"
            /\ awsCalls' = awsCalls
            /\ hostKey' = hostKey]_vars

\* An Update without its secret reference was refused after a key was imported
C9_Witness ==
  /\ request.RequestType = "Update"
  /\ Prop(request, "serverId") = "s-1"
  /\ "hostKeySecretArn" \notin DOMAIN request.ResourceProperties
  /\ response = Thrown("Missing hostKeySecretArn")
  /\ hostKey # <<>>
  /\ awsCalls = <<"getSecretValue", "updateServer">>

\* C10: every object-creation event of the primary bucket, whatever its
\* method, has put one message on the topic, delivered to every subscription
\* (checked under SpecEvents).
C10_EveryCreationNotifies ==
  /\ published = Len(objectEvents)
  /\ \A i \in DOMAIN deliveries : deliveries[i] = Len(objectEvents)

\* The network lookup has been made and found no public subnet
NoPublicSubnet == lookups # <<>> /\ subnetIds = <<>>

\* C11: when the looked-up network has no public subnet, the constructor has
\* failed with the no-public-subnet error and the plan holds no construct at
\* all: no server, elastic address, output, bucket, user, subscription or grant.
C11_NoSubnetNoService ==
  NoPublicSubnet =>
    /\ pc = "failed"
    /\ error = SubnetErr
    /\ constructs = <<>>
    /\ ingressRules = <<>>
    /\ cfnUsers = <<>>
    /\ notifications = {}
    /\ subscriptions = <<>>
    /\ grants = {}

\* The run failed on the subnet check, for a configuration that also asks
\* for a custom hostname and a custom host key
C11_Witness ==
  /\ NoPublicSubnet
  /\ pc = "failed"
  /\ error = SubnetErr
  /\ options.customHostname.useCustomHostname
  /\ options.customHostKey.useCustomKey
==========================================================================
